---------------------------- MODULE Spec2Model ----------------------------
(***************************************************************************)
(* A model of packages/gatsby-plugin-sharp/src/image-data.ts:              *)
(*   getImageMetadata      the metadata resolver and its process-wide      *)
(*                         cache (lines 33-61),                            *)
(*   getOutputAspectRatio  the aspect-ratio decision table (lines 77-104), *)
(*   generateImageData     the planning and assembly pipeline              *)
(*                         (lines 106-244).                                *)
(*                                                                         *)
(* Numbers.  A JavaScript number is modelled as an exact fraction          *)
(* <<n, d>> with d > 0, and the value undefined of a non-string field as   *)
(* the empty tuple.  An absent string field is the string "undefined".     *)
(***************************************************************************)
EXTENDS Integers, Sequences, FiniteSets, TLC

\* ------------------------------------------------------------------ bounds
\* Largest explicit or intrinsic dimension tried on getOutputAspectRatio.
MaxDim == 2
\* Number of getImageMetadata calls that may be in flight together.
NCalls == 2
\* Number of full-path getImageMetadata calls started in one behaviour.
MaxObjects == 2
\* Longest target-width list returned by calculateImageSizes.
MaxSizes == 2

\* ----------------------------------------------------------------- numbers
\* The value undefined of an optional field that is not a string.
Undefined == <<>>

\* The integer n as a number.
Num(n) == <<n, 1>>

\* JavaScript truthiness of a number-or-undefined: undefined and 0 are falsy.
Truthy(x) == x # Undefined /\ x[1] # 0

\* a / b for numbers a and b, b not zero.
Div(a, b) == IF b[1] > 0 THEN <<a[1] * b[2], a[2] * b[1]>>
                         ELSE <<0 - (a[1] * b[2]), a[2] * (0 - b[1])>>

\* a === b for two numbers.
NumEq(a, b) == a[1] * b[2] = b[1] * a[2]

\* a || b
Or(a, b) == IF Truthy(a) THEN a ELSE b

\* Math.round(x): the integer nearest to x, a tie going up (floor(x + 1/2)).
MathRound(x) == (2 * x[1] + x[2]) \div (2 * x[2])

\* ------------------------------------------------------------------- state
VARIABLES
    metadataCache,   \* line 33: content digest -> cached record, or Undefined
    testMode,        \* process.env.NODE_ENV === `test`
    sharpDominant,   \* whether this build of sharp reports stats().dominant
    nextId,          \* identity of the next record object built at line 58
    calls,           \* the frames of the getImageMetadata calls
    completed,       \* digests for which a getDominantColor call has returned
    gid,             \* the frame of the generateImageData invocation
    ar               \* a getOutputAspectRatio call: its arguments and its result

vars == <<metadataCache, testMode, sharpDominant, nextId, calls, completed,
          gid, ar>>

metaVars == <<metadataCache, testMode, sharpDominant, nextId, calls, completed>>

\* ==================================================== getOutputAspectRatio
Layouts == {"fixed", "fluid", "constrained"}
Fits == {"contain", "cover", "fill", "inside", "outside"}

\* An optional dimension of ISharpGatsbyImageArgs: absent, zero or positive.
OptDims == {Undefined} \cup {Num(k) : k \in 0..MaxDim}
\* An intrinsic dimension of IImageMetadata (strictly positive).
MetaDims == {Num(k) : k \in 1..MaxDim}

\* layout = `fixed` in the parameter list (lines 83, 113).
LayoutOf(args) == IF args.layout = "undefined" THEN "fixed" ELSE args.layout
\* fit = `cover` in the parameter list (line 84).
FitOf(args) == IF args.fit = "undefined" THEN "cover" ELSE args.fit

\* A slip: the fit test of lines 89-91 is missing.
getOutputAspectRatio_NoFit(args, metadata) ==
    IF Truthy(args.height) /\ Truthy(args.width) /\ LayoutOf(args) = "fixed"
    THEN Div(args.width, args.height)
    ELSE IF Truthy(args.maxWidth) /\ Truthy(args.maxHeight)
            /\ LayoutOf(args) # "fixed"
    THEN Div(args.maxWidth, args.maxHeight)
    ELSE Div(metadata.width, metadata.height)

\* A slip: the layout tests of lines 94 and 99 are missing.
getOutputAspectRatio_NoLayout(args, metadata) ==
    IF FitOf(args) = "inside" \/ FitOf(args) = "outside"
    THEN Div(metadata.width, metadata.height)
    ELSE IF Truthy(args.height) /\ Truthy(args.width)
    THEN Div(args.width, args.height)
    ELSE IF Truthy(args.maxWidth) /\ Truthy(args.maxHeight)
    THEN Div(args.maxWidth, args.maxHeight)
    ELSE Div(metadata.width, metadata.height)

getOutputAspectRatio(args, metadata) ==
    IF FitOf(args) = "inside" \/ FitOf(args) = "outside"
    THEN Div(metadata.width, metadata.height)
    ELSE IF Truthy(args.height) /\ Truthy(args.width) /\ LayoutOf(args) = "fixed"
    THEN Div(args.width, args.height)
    ELSE IF Truthy(args.maxWidth) /\ Truthy(args.maxHeight)
            /\ LayoutOf(args) # "fixed"
    THEN Div(args.maxWidth, args.maxHeight)
    ELSE Div(metadata.width, metadata.height)

\* The arguments getOutputAspectRatio is tried on.
AspectInputs ==
    [ args : [ layout : Layouts \cup {"undefined"},
               fit : Fits \cup {"undefined"},
               width : OptDims, height : OptDims,
               maxWidth : OptDims, maxHeight : OptDims ],
      metadata : [ width : MetaDims, height : MetaDims ] ]

ArIdle == [ pc |-> "idle" ]

\* One call of getOutputAspectRatio, from its arguments to its return value.
AspectCall ==
    /\ ar.pc = "called"
    /\ ar' = [ar EXCEPT !.pc = "returned",
                        !.result = getOutputAspectRatio(ar.args, ar.metadata)]
    /\ UNCHANGED <<metaVars, gid>>

\* ======================================================== getImageMetadata
\* The content digests of the files (file.internal.contentDigest).
Digests == {"d1", "d2"}
Calls == 1..NCalls

\* What sharp's metadata() reads from the file: a function of its contents.
IntrinsicOf(d) ==
    IF d = "d1"
    THEN [ width |-> Num(300), height |-> Num(200), density |-> Num(72),
           format |-> "png" ]
    ELSE [ width |-> Num(200), height |-> Num(200), density |-> Undefined,
           format |-> "jpg" ]

\* The dominant colour sharp's stats() computes, when this build has it.
DominantOf(d) == IF d = "d1" THEN <<255, 128, 0>> ELSE <<0, 0, 0>>

\* rgbToHex(r, g, b) of ./utils: "#rrggbb", here its six hexadecimal digits.
rgbToHex(r, g, b) ==
    << r \div 16, r % 16, g \div 16, g % 16, b \div 16, b % 16 >>

\* The literal `#000000` of line 56.
Black == << 0, 0, 0, 0, 0, 0 >>

IdleCall == [ pc |-> "idle", file |-> "d1", getDominantColor |-> FALSE,
              after |-> FALSE, probed |-> FALSE, statted |-> FALSE,
              ret |-> Undefined ]

\* A slip: the cached record is returned in test mode too.
CacheHit_IgnoresTestMode(file) == metadataCache[file] # Undefined

\* A slip: the condition of line 45 inverted on the environment.
CacheHit_OnlyInTest(file) == metadataCache[file] # Undefined /\ testMode

\* Lines 44-45: metadata && process.env.NODE_ENV !== `test`.
CacheHit(file) == metadataCache[file] # Undefined /\ ~testMode

\* Line 42: the record of the cheap path: width, height and format only.
\* It is never stored, and no two of them are ever compared; its id is 0.
SizeRecord(file) ==
    [ id |-> 0, width |-> IntrinsicOf(file).width,
      height |-> IntrinsicOf(file).height, density |-> Undefined,
      format |-> IntrinsicOf(file).format, dominantColor |-> Undefined ]

\* A slip: no fallback when stats() has no dominant field.
DominantColor_NoFallback(file) ==
    IF sharpDominant
    THEN rgbToHex(DominantOf(file)[1], DominantOf(file)[2], DominantOf(file)[3])
    ELSE Undefined

\* Lines 52-56: the dominant colour as hex, `#000000` when sharp has none.
DominantColor(file) ==
    IF sharpDominant
    THEN rgbToHex(DominantOf(file)[1], DominantOf(file)[2], DominantOf(file)[3])
    ELSE Black

\* Line 58: the record of the full path, a new object at every call: id
\* tells the objects apart.
FullRecord(id, file) ==
    [ id |-> id, width |-> IntrinsicOf(file).width,
      height |-> IntrinsicOf(file).height,
      density |-> IntrinsicOf(file).density,
      format |-> IntrinsicOf(file).format,
      dominantColor |-> DominantColor(file) ]

\* Lines 39-43: the cheap path leaves the cache alone.
CacheAfterSize(file, record) == metadataCache

\* Line 59: metadataCache.set(file.internal.contentDigest, metadata).
CacheAfterStats(file, record) == [metadataCache EXCEPT ![file] = record]

\* Lines 39-50: a call runs from its entry to its first await, or to the
\* return of line 46.
Enter(c, file, getDominantColor) ==
    /\ calls[c].pc = "idle"
    /\ nextId <= MaxObjects
    /\ LET frame == [IdleCall EXCEPT !.file = file,
                                     !.getDominantColor = getDominantColor,
                                     !.after = (file \in completed)]
       IN  IF ~getDominantColor
           THEN /\ calls' = [calls EXCEPT ![c] =
                       [frame EXCEPT !.pc = "awaitSize", !.probed = TRUE]]
                /\ UNCHANGED completed
           ELSE IF CacheHit(file)
           THEN /\ calls' = [calls EXCEPT ![c] =
                       [frame EXCEPT !.pc = "returned",
                                     !.ret = metadataCache[file]]]
                /\ completed' = completed \cup {file}
           ELSE /\ calls' = [calls EXCEPT ![c] =
                       [frame EXCEPT !.pc = "awaitMetadata", !.probed = TRUE]]
                /\ UNCHANGED completed
    /\ UNCHANGED <<metadataCache, testMode, sharpDominant, nextId>>

\* Lines 41-42: getImageSizeAsync has resolved.
ResumeSize(c) ==
    /\ calls[c].pc = "awaitSize"
    /\ LET record == SizeRecord(calls[c].file)
       IN  /\ calls' = [calls EXCEPT ![c].pc = "returned", ![c].ret = record]
           /\ metadataCache' = CacheAfterSize(calls[c].file, record)
    /\ UNCHANGED <<testMode, sharpDominant, nextId, completed, gid, ar>>

\* Lines 50-52: pipeline.metadata() has resolved; pipeline.stats() is issued.
ResumeMetadata(c) ==
    /\ calls[c].pc = "awaitMetadata"
    /\ calls' = [calls EXCEPT ![c].pc = "awaitStats", ![c].statted = TRUE]
    /\ UNCHANGED <<metadataCache, testMode, sharpDominant, nextId, completed,
                   gid, ar>>

\* Lines 52-60: pipeline.stats() has resolved; the record is built, stored
\* and returned.
ResumeStats(c) ==
    /\ calls[c].pc = "awaitStats"
    /\ LET record == FullRecord(nextId, calls[c].file)
       IN  /\ calls' = [calls EXCEPT ![c].pc = "returned", ![c].ret = record]
           /\ metadataCache' = CacheAfterStats(calls[c].file, record)
    /\ nextId' = nextId + 1
    /\ completed' = completed \cup {calls[c].file}
    /\ UNCHANGED <<testMode, sharpDominant, gid, ar>>

\* Lines 41, 50, 52: the awaited collaborator call fails (a missing or
\* corrupt file); nothing catches it, so the call's promise rejects.
RejectProbe(c) ==
    /\ calls[c].pc \in {"awaitSize", "awaitMetadata", "awaitStats"}
    /\ calls' = [calls EXCEPT ![c].pc = "rejected"]
    /\ UNCHANGED <<metadataCache, testMode, sharpDominant, nextId, completed,
                   gid, ar>>

\* A caller of getImageMetadata starts a call.
CallGetImageMetadata(c) ==
    /\ \E file \in Digests, getDominantColor \in BOOLEAN :
          Enter(c, file, getDominantColor)
    /\ UNCHANGED <<gid, ar>>

\* The caller has taken the outcome of a settled call.
Settle(c) ==
    /\ calls[c].pc \in {"returned", "rejected"}
    /\ calls' = [calls EXCEPT ![c] = IdleCall]
    /\ UNCHANGED <<metadataCache, testMode, sharpDominant, nextId, completed,
                   gid, ar>>


\* ======================================================= generateImageData
Placeholders == {"tracedSVG", "dominantColor", "blurred", "none"}

\* placeholder = `dominantColor` in the destructuring of line 114.
PlaceholderOf(args) ==
    IF args.placeholder = "undefined" THEN "dominantColor" ELSE args.placeholder

\* The arguments generateImageData is called with.
ImageArgs ==
    [ layout : Layouts \cup {"undefined"},
      placeholder : Placeholders \cup {"undefined"},
      maxWidth : {Undefined, Num(0), Num(300)},
      toFormat : {"undefined", "", "jpg"},
      webP : BOOLEAN ]

\* The target widths calculateImageSizes may hand back (100.4 and 200.6).
WidthPool == { <<1004, 10>>, <<2006, 10>> }

\* The files generateImageData is called on.
Files == {"d1"}

SeqsUpTo(S, n) == UNION { [1..k -> S] : k \in 1..n }

\* What calculateImageSizes (./utils) may return: a list of target widths, a
\* presentation width and an aspect ratio.
ImageSizes ==
    [ sizes : SeqsUpTo(WidthPool, MaxSizes),
      presentationWidth : WidthPool,
      aspectRatio : { <<2, 1>>, <<3, 2>> } ]

\* A slip: the height is computed from the raw target width.
Transform_RawWidth(outputWidth, aspectRatio, toFormat) ==
    [ width |-> MathRound(outputWidth),
      height |-> MathRound(Div(outputWidth, aspectRatio)),
      toFormat |-> toFormat ]

\* Lines 134-141 and 177-184: the transform of one target width.
\* createTransformObject keeps the width, height and toFormat it is given.
Transform(outputWidth, aspectRatio, toFormat) ==
    LET width == MathRound(outputWidth)
    IN  [ width |-> width,
          height |-> MathRound(Div(Num(width), aspectRatio)),
          toFormat |-> toFormat ]

\* JavaScript truthiness of a string-or-undefined: undefined and the empty
\* string are falsy.
TruthyString(x) == x # "undefined" /\ x # ""

\* Line 139: args.toFormat || metadata.format
ToFormat(args, metadata) ==
    IF TruthyString(args.toFormat) THEN args.toFormat ELSE metadata.format

\* Lines 133-142 and 176-185: imageSizes.sizes.map(...).
Transforms(imageSizes, toFormat) ==
    [ i \in 1..Len(imageSizes.sizes) |->
        Transform(imageSizes.sizes[i], imageSizes.aspectRatio, toFormat) ]

\* What an encoded image reports about itself.
Reports == {"all", "noAspectRatio", "srcOnly"}

\* The image batchQueueImageResizing returns for one transform.
EncodedImage(t, report) ==
    [ src |-> <<t.toFormat, t.width>>,
      width |-> IF report = "srcOnly" THEN Undefined ELSE Num(t.width),
      height |-> IF report = "srcOnly" THEN Undefined ELSE Num(t.height),
      aspectRatio |-> IF report = "all" THEN Div(Num(t.width), Num(t.height))
                                        ELSE Undefined ]

\* What batchQueueImageResizing may return for a list of transforms: nothing,
\* or one image per transform in the order of the transforms.
ResizeResults(transforms) ==
    { <<>> } \cup
    { [ i \in 1..Len(transforms) |-> EncodedImage(transforms[i], report) ] :
        report \in Reports }

\* getSrcSet of ./utils: one candidate per image, in order.
getSrcSet(images) == [ i \in 1..Len(images) |-> images[i].src ]

\* getSizes of ./utils: a sizes attribute for the presentation width
\* (line 151; args.sizes is absent from the arguments tried).
getSizes(presentationWidth) == [ maxWidth |-> presentationWidth ]

\* Lines 153-155: sizes.findIndex(size => size === presentationWidth);
\* indices here start at 1, and 0 stands for findIndex's -1.
FindIndex(sizes, presentationWidth) ==
    IF \E i \in 1..Len(sizes) : NumEq(sizes[i], presentationWidth)
    THEN CHOOSE i \in 1..Len(sizes) :
            /\ NumEq(sizes[i], presentationWidth)
            /\ \A j \in 1..(i - 1) : ~NumEq(sizes[j], presentationWidth)
    ELSE 0

\* Line 157: images[primaryIndex], undefined outside the array.
ElementAt(images, index) ==
    IF index \in 1..Len(images) THEN images[index] ELSE Undefined

\* A slip: the guard of line 159 is missing.
NoImages_Never(images) == FALSE

\* Line 159: !images?.length
NoImages(images) == Len(images) = 0

\* A slip: the dominant colour is computed for every placeholder.
NeedDominantColor_Always(args) == TRUE

\* Line 118: placeholder === `dominantColor`
NeedDominantColor(args) == PlaceholderOf(args) = "dominantColor"

\* The frame of an invocation.  images is the array batchQueueImageResizing
\* returned, which line 225 writes into; resized keeps it as it was returned.
GidIdle ==
    [ pc |-> "idle", file |-> "d1",
      args |-> [ layout |-> "undefined", placeholder |-> "undefined",
                 maxWidth |-> Undefined, toFormat |-> "undefined",
                 webP |-> FALSE ],
      metadata |-> Undefined, imageSizes |-> Undefined, transforms |-> <<>>,
      images |-> <<>>, resized |-> <<>>, primaryIndex |-> 0,
      webpTransforms |-> <<>>,
      imageProps |-> Undefined, log |-> <<>>, failed |-> "none",
      error |-> "none", result |-> Undefined ]

\* A slip: a try/catch swallows the failure and the descriptor built so far
\* is returned.
Throw_Swallowed(frame, error) ==
    [frame EXCEPT !.pc = "returned", !.result = frame.imageProps]

\* An exception leaves the async function: its promise rejects with the
\* error and nothing is returned (no try/catch in lines 106-244).
Throw(frame, error) ==
    [frame EXCEPT !.pc = "rejected", !.error = error]

\* A collaborator call is issued.
Issue(frame, call) == [frame EXCEPT !.pc = call, !.log = Append(@, call)]

\* A slip: the primary's width is preferred to args.maxWidth.
ConstrainedWidth_PrimaryFirst(args, primaryImage) ==
    Or(primaryImage.width, Or(args.maxWidth, Num(1)))

\* Line 239: args.maxWidth || primaryImage.width || 1
ConstrainedWidth(args, primaryImage) ==
    Or(args.maxWidth, Or(primaryImage.width, Num(1)))

\* Lines 225-243: the primary image's aspect ratio is set to 1 when it has
\* none (an assignment: the image is an element of the images array), then
\* the layout's width and height, and the return.
Finish(frame, imageProps) ==
    LET reported == ElementAt(frame.images, frame.primaryIndex)
        primaryImage ==
          [reported EXCEPT !.aspectRatio = Or(reported.aspectRatio, Num(1))]
        aspectRatio == primaryImage.aspectRatio
        layout == LayoutOf(frame.args)
        width == ConstrainedWidth(frame.args, primaryImage)
        sized ==
          IF layout = "fixed"
          THEN [imageProps EXCEPT !.width = primaryImage.width,
                                  !.height = primaryImage.height]
          ELSE IF layout = "fluid"
          THEN [imageProps EXCEPT !.width = Num(1),
                                  !.height = Div(Num(1), aspectRatio)]
          ELSE [imageProps EXCEPT !.width = width,
                                  !.height = Div(Or(width, Num(1)), aspectRatio)]
    IN  [frame EXCEPT !.pc = "returned",
                      !.images[frame.primaryIndex] = primaryImage,
                      !.imageProps = sized,
                      !.result = sized]

\* Lines 201-223: the placeholder strategy; blurred and tracedSVG await a
\* collaborator, the others run on to the return.
Placeholder(frame) ==
    IF PlaceholderOf(frame.args) = "blurred"
    THEN Issue(frame, "base64")
    ELSE IF PlaceholderOf(frame.args) = "tracedSVG"
    THEN Issue(frame, "traceSVG")
    ELSE IF frame.metadata.dominantColor # Undefined
    THEN Finish(frame, [frame.imageProps EXCEPT
                           !.backgroundColor = frame.metadata.dominantColor])
    ELSE Finish(frame, frame.imageProps)

\* Lines 112-118: generateImageData is called and awaits getImageMetadata.
Generate ==
    /\ gid.pc = "idle"
    /\ \E args \in ImageArgs, file \in Files :
          /\ gid' = [GidIdle EXCEPT !.pc = "getImageMetadata", !.file = file,
                                    !.args = args]
          /\ Enter(1, file, NeedDominantColor(args))
    /\ UNCHANGED ar

\* The collaborator calls a settled getImageMetadata call had issued.
ProbesOf(call) ==
    IF ~call.probed THEN <<>>
    ELSE IF ~call.getDominantColor THEN <<"getImageSizeAsync">>
    ELSE IF ~call.statted THEN <<"metadata">>
    ELSE <<"metadata", "stats">>

\* Lines 118-144: getImageMetadata has returned; the sizes are calculated,
\* the transforms planned and batchQueueImageResizing is called.
MetadataReturned ==
    /\ gid.pc = "getImageMetadata"
    /\ calls[1].pc = "returned"
    /\ \E imageSizes \in ImageSizes :
          LET metadata == calls[1].ret
              frame == [gid EXCEPT !.metadata = metadata,
                                   !.imageSizes = imageSizes,
                                   !.transforms =
                                       Transforms(imageSizes,
                                                  ToFormat(gid.args, metadata)),
                                   !.log = @ \o ProbesOf(calls[1])]
          IN  gid' = Issue(frame, "batchQueueImageResizing")
    /\ calls' = [calls EXCEPT ![1] = IdleCall]
    /\ UNCHANGED <<metadataCache, testMode, sharpDominant, nextId, completed, ar>>

\* Line 118: getImageMetadata has failed.
MetadataRejected ==
    /\ gid.pc = "getImageMetadata"
    /\ calls[1].pc = "rejected"
    /\ LET probes == ProbesOf(calls[1])
           frame == [gid EXCEPT !.log = @ \o probes,
                                !.failed = probes[Len(probes)]]
       IN  gid' = Throw(frame, "DecodeError")
    /\ calls' = [calls EXCEPT ![1] = IdleCall]
    /\ UNCHANGED <<metadataCache, testMode, sharpDominant, nextId, completed, ar>>

\* Lines 144-186 (and on, to the first await or the return): the resize
\* collaborator has returned its images.
ResizeReturned ==
    /\ gid.pc = "batchQueueImageResizing"
    /\ \E images \in ResizeResults(gid.transforms) :
          LET srcSet == getSrcSet(images)
              sizes == getSizes(gid.imageSizes.presentationWidth)
              primaryIndex == FindIndex(gid.imageSizes.sizes,
                                        gid.imageSizes.presentationWidth)
              primaryImage == ElementAt(images, primaryIndex)
              frame == [gid EXCEPT !.images = images,
                                   !.resized = images,
                                   !.primaryIndex = primaryIndex]
          IN  IF NoImages(images)
              THEN gid' = [frame EXCEPT !.pc = "returned", !.result = Undefined]
              ELSE IF primaryImage = Undefined
              THEN \* line 167: primaryImage.src of undefined
                   gid' = Throw(frame, "TypeError")
              ELSE LET imageProps ==
                         [ layout |-> LayoutOf(gid.args),
                           placeholder |-> Undefined,
                           images |->
                             [ fallback |-> [ src |-> primaryImage.src,
                                              srcSet |-> srcSet,
                                              sizes |-> sizes ],
                               sources |-> <<>> ],
                           backgroundColor |-> Undefined,
                           width |-> Undefined, height |-> Undefined ]
                       built == [frame EXCEPT !.imageProps = imageProps]
                   IN  IF gid.args.webP
                       THEN gid' = Issue(
                              [built EXCEPT !.webpTransforms =
                                  Transforms(gid.imageSizes, "webp")],
                              "batchQueueImageResizing(webp)")
                       ELSE gid' = Placeholder(built)
    /\ UNCHANGED <<metaVars, ar>>

\* Lines 187-199: the resize collaborator has returned the webp images.
WebpResizeReturned ==
    /\ gid.pc = "batchQueueImageResizing(webp)"
    /\ \E webpImages \in ResizeResults(gid.webpTransforms) :
          LET source == [ srcSet |-> getSrcSet(webpImages),
                          type |-> "image/webp",
                          sizes |-> gid.imageProps.images.fallback.sizes ]
          IN  gid' = Placeholder(
                [gid EXCEPT !.imageProps.images.sources = Append(@, source)])
    /\ UNCHANGED <<metaVars, ar>>

\* Lines 202-209: base64 has resolved.
Base64Resolved ==
    /\ gid.pc = "base64"
    /\ gid' = Finish(gid, [gid.imageProps EXCEPT
                      !.placeholder = [ fallback |-> "data:image/png;base64" ]])
    /\ UNCHANGED <<metaVars, ar>>

\* Lines 211-220: traceSVG has resolved.
TraceSVGResolved ==
    /\ gid.pc = "traceSVG"
    /\ gid' = Finish(gid, [gid.imageProps EXCEPT
                      !.placeholder = [ fallback |-> "data:image/svg+xml" ]])
    /\ UNCHANGED <<metaVars, ar>>

\* Lines 144, 187, 202, 211: the collaborator call fails.
CollaboratorFails ==
    /\ gid.pc \in {"batchQueueImageResizing", "batchQueueImageResizing(webp)",
                   "base64", "traceSVG"}
    /\ gid' = Throw([gid EXCEPT !.failed = gid.pc],
                    IF gid.pc = "traceSVG" THEN "VectorizeError"
                    ELSE "ResizeError")
    /\ UNCHANGED <<metaVars, ar>>

\* The caller has taken the outcome; generateImageData may be called again.
Settled ==
    /\ gid.pc \in {"returned", "rejected"}
    /\ gid' = GidIdle
    /\ UNCHANGED <<metaVars, ar>>

\* ========================================================== specifications

\* The module is loaded: the cache is empty (line 33), nothing is running.
\* The environment (NODE_ENV, the build of sharp) is fixed for the process.
InitProcess ==
    /\ metadataCache = [d \in Digests |-> Undefined]
    /\ testMode \in BOOLEAN
    /\ sharpDominant \in BOOLEAN
    /\ nextId = 1
    /\ calls = [c \in Calls |-> IdleCall]
    /\ completed = {}
    /\ gid = GidIdle

\* getImageMetadata called by any number of callers, NCalls at a time.
InitMeta == InitProcess /\ ar = ArIdle

NextMeta ==
    \E c \in Calls :
        \/ CallGetImageMetadata(c)
        \/ ResumeSize(c)
        \/ ResumeMetadata(c)
        \/ ResumeStats(c)
        \/ RejectProbe(c)
        \/ Settle(c)

SpecMeta == InitMeta /\ [][NextMeta]_vars

\* getOutputAspectRatio on every input of AspectInputs.
InitAspect ==
    /\ InitProcess
    /\ \E in \in AspectInputs :
          ar = [ pc |-> "called", args |-> in.args, metadata |-> in.metadata,
                 result |-> Undefined ]

NextAspect == AspectCall

SpecAspect == InitAspect /\ [][NextAspect]_vars

\* generateImageData called again and again, one invocation at a time.
Init == InitProcess /\ ar = ArIdle

Next ==
    \/ Generate
    \/ ResumeSize(1)
    \/ ResumeMetadata(1)
    \/ ResumeStats(1)
    \/ RejectProbe(1)
    \/ MetadataReturned
    \/ MetadataRejected
    \/ ResizeReturned
    \/ WebpResizeReturned
    \/ Base64Resolved
    \/ TraceSVGResolved
    \/ CollaboratorFails
    \/ Settled

Spec == Init /\ [][Next]_vars

\* ================================================================== claims
\* A dimension is given when the code's own test of it succeeds: it is
\* present and not zero (height && width, maxWidth && maxHeight, ... || ...).
Given(x) == Truthy(x)

\* r is the quotient a / b.
IsQuotient(r, a, b) == r[1] * a[2] * b[1] = r[2] * a[1] * b[2]

ArFit == IF ar.args.fit = "undefined" THEN "cover" ELSE ar.args.fit
ArLayout == IF ar.args.layout = "undefined" THEN "fixed" ELSE ar.args.layout
ArKeepsSource == ArFit \in {"inside", "outside"}
ArExplicit == Given(ar.args.width) /\ Given(ar.args.height) /\ ArLayout = "fixed"
ArBounded ==
    Given(ar.args.maxWidth) /\ Given(ar.args.maxHeight) /\ ArLayout # "fixed"

\* C1: getOutputAspectRatio is the ordered decision table: (1) fit inside or
\* outside gives metadata.width / metadata.height whatever dimensions are
\* given; (2) else width and height both given with layout fixed give
\* width / height; (3) else maxWidth and maxHeight both given with a layout
\* other than fixed give maxWidth / maxHeight; (4) else the metadata's ratio.
C1_DecisionTable ==
    ar.pc = "returned" =>
        /\ ArKeepsSource =>
              IsQuotient(ar.result, ar.metadata.width, ar.metadata.height)
        /\ (~ArKeepsSource /\ ArExplicit) =>
              IsQuotient(ar.result, ar.args.width, ar.args.height)
        /\ (~ArKeepsSource /\ ~ArExplicit /\ ArBounded) =>
              IsQuotient(ar.result, ar.args.maxWidth, ar.args.maxHeight)
        /\ (~ArKeepsSource /\ ~ArExplicit /\ ~ArBounded) =>
              IsQuotient(ar.result, ar.metadata.width, ar.metadata.height)

\* Rule 1 has won over an explicit width and height of another ratio.
C1_Witness ==
    /\ ar.pc = "returned"
    /\ ar.args.fit = "outside" /\ ar.args.layout = "fixed"
    /\ ar.args.width = Num(2) /\ ar.args.height = Num(1)
    /\ ar.metadata.width = Num(1) /\ ar.metadata.height = Num(2)
    /\ ar.result = <<1, 2>>

\* C7 as stated: a square source gives the ratio 1 under every layout and
\* fit, whatever else the arguments hold.
C7_SquareAlwaysOne ==
    (ar.pc = "returned" /\ NumEq(ar.metadata.width, ar.metadata.height)) =>
        NumEq(ar.result, Num(1))

\* C7, amended: a square source gives the ratio 1 under every layout and fit
\* unless an explicit pair decides (fit neither inside nor outside, and width
\* and height given with layout fixed, or maxWidth and maxHeight given with
\* another layout); then the result is the pair's ratio.
C7_SquareOneUnlessExplicit ==
    (ar.pc = "returned" /\ NumEq(ar.metadata.width, ar.metadata.height)) =>
        /\ (ArKeepsSource \/ (~ArExplicit /\ ~ArBounded)) =>
              NumEq(ar.result, Num(1))
        /\ (~ArKeepsSource /\ ArExplicit) =>
              IsQuotient(ar.result, ar.args.width, ar.args.height)
        /\ (~ArKeepsSource /\ ~ArExplicit /\ ArBounded) =>
              IsQuotient(ar.result, ar.args.maxWidth, ar.args.maxHeight)

\* A square source under fit inside, with an explicit 2 x 1 box, gave 1.
C7_Witness ==
    /\ ar.pc = "returned"
    /\ NumEq(ar.metadata.width, ar.metadata.height)
    /\ ar.args.fit = "inside" /\ ar.args.layout = "undefined"
    /\ ar.args.width = Num(2) /\ ar.args.height = Num(1)
    /\ NumEq(ar.result, Num(1))

\* ---------------------------------------------------------------- C2
GidPlanned == gid.imageSizes # Undefined

\* w is Math.round of the fraction x: w - 1/2 <= x < w + 1/2.
IsRounded(w, x) ==
    /\ 2 * x[2] * w <= 2 * x[1] + x[2]
    /\ 2 * x[1] + x[2] < 2 * x[2] * (w + 1)

IsPlanOf(transforms, imageSizes) ==
    /\ Len(transforms) = Len(imageSizes.sizes)
    /\ \A i \in 1..Len(transforms) :
          /\ IsRounded(transforms[i].width, imageSizes.sizes[i])
          /\ IsRounded(transforms[i].height,
                       <<transforms[i].width * imageSizes.aspectRatio[2],
                         imageSizes.aspectRatio[1]>>)

Dims(transforms) ==
    [ i \in 1..Len(transforms) |-> <<transforms[i].width, transforms[i].height>> ]

GidWebpPlanned ==
    \E i \in 1..Len(gid.log) : gid.log[i] = "batchQueueImageResizing(webp)"

\* C2: the plan has one transform per target width, in the order of the
\* target widths, the i-th of width round(w_i) and height
\* round(round(w_i) / aspectRatio); [100.4, 200.6] at ratio 2 give
\* [(100, 50), (201, 101)]; the webp plan is built the same way.
C2_VariantPlan ==
    GidPlanned =>
        /\ IsPlanOf(gid.transforms, gid.imageSizes)
        /\ \A i \in 1..Len(gid.transforms) :
              gid.transforms[i].toFormat =
                 (IF gid.args.toFormat \in {"undefined", ""}
                  THEN gid.metadata.format
                  ELSE gid.args.toFormat)
        /\ GidWebpPlanned =>
              /\ IsPlanOf(gid.webpTransforms, gid.imageSizes)
              /\ \A i \in 1..Len(gid.webpTransforms) :
                    gid.webpTransforms[i].toFormat = "webp"
        /\ ( /\ gid.imageSizes.sizes = << <<1004, 10>>, <<2006, 10>> >>
             /\ gid.imageSizes.aspectRatio = <<2, 1>> ) =>
              /\ Dims(gid.transforms) = << <<100, 50>>, <<201, 101>> >>
              /\ GidWebpPlanned =>
                    Dims(gid.webpTransforms) = << <<100, 50>>, <<201, 101>> >>

\* Both plans of [100.4, 200.6] at ratio 2 have been built.
C2_Witness ==
    /\ GidPlanned /\ GidWebpPlanned
    /\ gid.imageSizes.sizes = << <<1004, 10>>, <<2006, 10>> >>
    /\ gid.imageSizes.aspectRatio = <<2, 1>>
    /\ Dims(gid.transforms) = << <<100, 50>>, <<201, 101>> >>
    /\ Dims(gid.webpTransforms) = << <<100, 50>>, <<201, 101>> >>

\* ---------------------------------------------------------------- C3
\* The primary batchQueueImageResizing call has returned (not thrown).
GidResized ==
    /\ \E i \in 1..Len(gid.log) : gid.log[i] = "batchQueueImageResizing"
    /\ gid.pc # "batchQueueImageResizing"
    /\ gid.failed # "batchQueueImageResizing"

\* C3: when the resize collaborator returns no image, generateImageData
\* returns undefined and does not fail, whatever the layout and placeholder.
C3_EmptyIsAbsent ==
    (GidResized /\ Len(gid.images) = 0) =>
        /\ gid.pc = "returned"
        /\ gid.result = Undefined
        /\ gid.error = "none"
        /\ gid.log[Len(gid.log)] = "batchQueueImageResizing"

\* An empty list under the constrained layout and a traced placeholder.
C3_Witness ==
    /\ GidResized /\ Len(gid.images) = 0
    /\ gid.args.layout = "constrained" /\ gid.args.placeholder = "tracedSVG"
    /\ gid.args.webP
    /\ gid.pc = "returned" /\ gid.result = Undefined

\* ---------------------------------------------------------------- C4
GidDescriptor == gid.pc = "returned" /\ gid.result # Undefined

\* The primary image as batchQueueImageResizing returned it.
GidPrimary == gid.resized[gid.primaryIndex]

\* The primary's reported aspect ratio, or 1 if it reported none.
GidPrimaryRatio ==
    IF Given(GidPrimary.aspectRatio) THEN GidPrimary.aspectRatio ELSE Num(1)

\* C4: a returned descriptor's width and height: fixed: the primary's own
\* width and height; fluid: 1 and 1 / r; constrained: maxWidth if given, else
\* the primary's width, else 1, and that width / r (r the primary's aspect
\* ratio, 1 if it reported none).
C4_LayoutDimensions ==
    GidDescriptor =>
        /\ gid.primaryIndex \in 1..Len(gid.images)
        /\ NumEq(gid.images[gid.primaryIndex].aspectRatio, GidPrimaryRatio)
        /\ gid.result.layout \in Layouts
        /\ gid.result.layout =
              (IF gid.args.layout = "undefined" THEN "fixed" ELSE gid.args.layout)
        /\ gid.result.layout = "fixed" =>
              /\ gid.result.width = GidPrimary.width
              /\ gid.result.height = GidPrimary.height
        /\ gid.result.layout = "fluid" =>
              /\ gid.result.width = Num(1)
              /\ IsQuotient(gid.result.height, Num(1), GidPrimaryRatio)
        /\ gid.result.layout = "constrained" =>
              /\ Given(gid.args.maxWidth) =>
                    NumEq(gid.result.width, gid.args.maxWidth)
              /\ (~Given(gid.args.maxWidth) /\ Given(GidPrimary.width)) =>
                    NumEq(gid.result.width, GidPrimary.width)
              /\ (~Given(gid.args.maxWidth) /\ ~Given(GidPrimary.width)) =>
                    NumEq(gid.result.width, Num(1))
              /\ IsQuotient(gid.result.height, gid.result.width, GidPrimaryRatio)

\* maxWidth = 300 with a primary of aspect ratio 1.5 gave 300 x 200.
C4_Witness ==
    /\ GidDescriptor
    /\ gid.result.layout = "constrained"
    /\ gid.args.maxWidth = Num(300)
    /\ Given(GidPrimary.aspectRatio)
    /\ NumEq(GidPrimary.aspectRatio, <<3, 2>>)
    /\ NumEq(gid.result.width, Num(300))
    /\ NumEq(gid.result.height, Num(200))

\* ---------------------------------------------------------------- C5
GidStrategy ==
    IF gid.args.placeholder = "undefined" THEN "dominantColor"
    ELSE gid.args.placeholder

\* C5: in a returned descriptor at most one of backgroundColor and the
\* placeholder payload is populated: blurred and tracedSVG populate the
\* payload only, dominantColor populates backgroundColor only, none neither.
C5_PlaceholderExclusive ==
    GidDescriptor =>
        /\ ~(gid.result.backgroundColor # Undefined
              /\ gid.result.placeholder # Undefined)
        /\ GidStrategy \in {"blurred", "tracedSVG"} =>
              /\ gid.result.placeholder # Undefined
              /\ gid.result.backgroundColor = Undefined
        /\ GidStrategy = "dominantColor" =>
              /\ gid.result.backgroundColor # Undefined
              /\ gid.result.placeholder = Undefined
        /\ GidStrategy = "none" =>
              /\ gid.result.backgroundColor = Undefined
              /\ gid.result.placeholder = Undefined

\* A descriptor under the default strategy, its colour taken from a record
\* that came out of the cache.
C5_Witness ==
    /\ GidDescriptor
    /\ gid.args.placeholder = "undefined"
    /\ gid.result.backgroundColor = gid.metadata.dominantColor
    /\ gid.result.backgroundColor # Undefined
    /\ gid.result.placeholder = Undefined
    /\ gid.log[1] = "batchQueueImageResizing"

\* ---------------------------------------------------------------- C8
\* C8: when a collaborator call fails, the invocation ends in that failure:
\* nothing is returned, the failing call is the last call issued, and it was
\* issued once.
C8_FailureAborts ==
    gid.failed # "none" =>
        /\ gid.pc = "rejected"
        /\ gid.error \in {"DecodeError", "ResizeError", "VectorizeError"}
        /\ gid.result = Undefined
        /\ gid.log[Len(gid.log)] = gid.failed
        /\ Cardinality({ i \in 1..Len(gid.log) : gid.log[i] = gid.failed }) = 1
        /\ calls[1].pc = "idle"

\* The SVG trace failed after both resize calls had succeeded.
C8_Witness ==
    /\ gid.failed = "traceSVG"
    /\ gid.pc = "rejected"
    /\ gid.log = << "getImageSizeAsync", "batchQueueImageResizing",
                    "batchQueueImageResizing(webp)", "traceSVG" >>

\* ---------------------------------------------------------------- C9
GidNoExactMatch ==
    \A i \in 1..Len(gid.imageSizes.sizes) :
        ~NumEq(gid.imageSizes.sizes[i], gid.imageSizes.presentationWidth)

\* C9: with images returned and no target width equal to the presentation
\* width, the invocation still completes: it does not fail, and what it
\* returns is a descriptor whose primary-derived fields are undefined.
C9_CompletesWithoutPrimary ==
    (GidResized /\ Len(gid.images) > 0 /\ GidNoExactMatch) =>
        /\ gid.primaryIndex = 0
        /\ gid.error # "TypeError"
        /\ gid.pc = "returned" =>
              /\ gid.result # Undefined
              /\ gid.result.images.fallback.src = Undefined
              /\ gid.result.width = Undefined

\* ---------------------------------------------------------------- C6
\* C6: outside test mode a getDominantColor call that starts after one has
\* completed for the same digest returns at once the very record the cache
\* holds, without a probe or statistics call and without building a record;
\* in test mode every getDominantColor call probes and computes statistics.
C6_CachedAfterCompletion ==
    /\ [][ \A c \in Calls :
             ( /\ calls[c].pc = "idle" /\ calls'[c].pc # "idle"
               /\ calls'[c].getDominantColor
               /\ calls'[c].file \in completed )
             => IF testMode
                THEN calls'[c].pc = "awaitMetadata" /\ calls'[c].probed
                ELSE /\ calls'[c].pc = "returned"
                     /\ metadataCache[calls'[c].file] # Undefined
                     /\ calls'[c].ret = metadataCache[calls'[c].file]
                     /\ ~calls'[c].probed /\ ~calls'[c].statted
                     /\ nextId' = nextId
                     /\ metadataCache' = metadataCache ]_vars
    /\ [] \A c \in Calls :
             (calls[c].pc = "returned" /\ calls[c].getDominantColor) =>
                IF testMode THEN calls[c].probed /\ calls[c].statted
                ELSE calls[c].after => ~calls[c].probed /\ ~calls[c].statted

\* A later call outside test mode has returned the cached record unprobed.
C6_Witness ==
    \E c \in Calls :
        /\ ~testMode
        /\ calls[c].pc = "returned" /\ calls[c].getDominantColor
        /\ calls[c].after
        /\ ~calls[c].probed /\ ~calls[c].statted
        /\ calls[c].ret = metadataCache[calls[c].file]
        /\ calls[c].ret # Undefined

\* --------------------------------------------------------------- C10
\* A step of a call made with getDominantColor false.
CheapStep(c) ==
    /\ calls'[c] # calls[c]
    /\ calls'[c].pc # "idle"
    /\ ~calls'[c].getDominantColor

\* Calls made with getDominantColor false neither read nor write the cache:
\* they probe whatever the cache holds and leave it as it is.
CheapCallsAvoidCache ==
    \A c \in Calls :
        CheapStep(c) =>
            /\ metadataCache' = metadataCache
            /\ calls'[c].probed
            /\ calls'[c].pc = "returned" =>
                  \A d \in Digests : calls'[c].ret # metadataCache[d]

\* C10: the cache is write-once per key: under any interleaving of
\* getImageMetadata calls an entry stored for a digest is never overwritten
\* or removed, and getDominantColor = false calls neither read nor write.
C10_WriteOnce ==
    [][ /\ \A d \in Digests :
              metadataCache[d] # Undefined => metadataCache'[d] = metadataCache[d]
        /\ CheapCallsAvoidCache ]_vars

=============================================================================
